---- MODULE Spec2Model ----
(***************************************************************************)
(* A model of spotify/ulogger: the dispatcher setup_logging                *)
(* (ulogger/ulogger.py), the syslog handler builder (ulogger/syslog.py)    *)
(* and the cloud logging handler builder (ulogger/stackdriver.py).         *)
(*                                                                         *)
(* Python values are tagged records: None, Num(n), Str(s), Text(cs),       *)
(* Tup(seq).  A str whose characters the code inspects (a port handed to   *)
(* int(), a metadata body that is stripped and split) is Text of a tuple   *)
(* of one-character strings; a str the code only passes around is Str of   *)
(* a TLA+ string.                                                          *)
(***************************************************************************)
EXTENDS Integers, Sequences, FiniteSets, TLC

VARIABLES
    environ,        \* os.environ: a function from the variables set to their values
    platform,       \* sys.platform
    pathExists,     \* os.path.exists('/var/run/syslog')
    metadata,       \* the metadata server: key -> response
    rootHandlers,   \* logging.getLogger('').handlers
    rootLevel,      \* logging.getLogger('').level
    nextId,         \* identity of the next handler object constructed
    pc,             \* position of the running setup_logging call
    args,           \* its arguments: progname, level, handlers, kwargs
    i,              \* index of the handler name the for loop is at
    handler_module, \* local: the module import_module returned
    handler,        \* local: the handler built for handlers[i]
    raised,         \* the exception that left setup_logging, or None
    calls,          \* the calls the running setup_logging has made, in order
    entry,          \* root logger's handlers and level when the call began
    workerLevel,    \* level of the background transport thread's logger
    builder,        \* a handler builder under direct use, or None
    given,          \* the arguments that builder was constructed with
    product,        \* what the last call on the builder returned or raised
    requests,       \* the metadata keys that builder has sent a GET for, in order
    completed       \* of the setup_logging calls that have ended: how many handlers
                    \* they were to leave attached, and the level of the last
                    \* one that returned

vars == <<environ, platform, pathExists, metadata, rootHandlers, rootLevel,
          nextId, workerLevel, pc, args, i, handler_module, handler, raised, calls, entry,
          builder, given, product, requests, completed>>

envVars == <<environ, platform, pathExists, metadata>>
rootVars == <<rootHandlers, rootLevel, nextId, workerLevel>>
frameVars == <<pc, args, i, handler_module, handler, raised, calls, entry>>
builderVars == <<builder, given, product, requests>>

----------------------------------------------------------------------------
(* Python values *)

None == [t |-> "None"]
Num(n) == [t |-> "int", v |-> n]
Str(s) == [t |-> "str", v |-> s]
Text(cs) == [t |-> "str", cs |-> cs]
Tup(s) == [t |-> "tuple", v |-> s]
False == [t |-> "bool", v |-> FALSE]
True == [t |-> "bool", v |-> TRUE]
Err(type, msg) == [t |-> "raise", type |-> type, msg |-> msg]

IsErr(x) == x.t = "raise"

\* Python truth value of x: None, 0, '' and () are false
Truthy(x) ==
    CASE x.t = "None" -> FALSE
      [] x.t = "int" -> x.v # 0
      [] x.t = "str" -> IF "cs" \in DOMAIN x THEN x.cs # <<>>
                        ELSE IF "parts" \in DOMAIN x THEN TRUE
                        ELSE x.v # ""
      [] x.t = "bool" -> x.v
      [] x.t = "tuple" -> Len(x.v) > 0
      [] OTHER -> TRUE

\* x or y
Or(x, y) == IF Truthy(x) THEN x ELSE y

\* kwargs.get(key, default) / a keyword parameter with a default
Get(kw, key, default) == IF key \in DOMAIN kw THEN kw[key] ELSE default

Digit == [c \in {"0", "1", "2", "3", "4", "5", "6", "7", "8", "9"} |->
            CASE c = "0" -> 0 [] c = "1" -> 1 [] c = "2" -> 2 [] c = "3" -> 3
              [] c = "4" -> 4 [] c = "5" -> 5 [] c = "6" -> 6 [] c = "7" -> 7
              [] c = "8" -> 8 [] c = "9" -> 9]

RECURSIVE DigitsValue(_)
DigitsValue(s) ==
    IF s = <<>> THEN 0
    ELSE 10 * DigitsValue(SubSeq(s, 1, Len(s) - 1)) + Digit[s[Len(s)]]

\* int(x): an int is itself, a str of decimal digits is its value, any other
\* str raises ValueError and None raises TypeError
PyInt(x) ==
    CASE x.t = "int" -> x
      [] x.t = "str" ->
            IF "cs" \in DOMAIN x /\ x.cs # <<>>
               /\ \A k \in 1..Len(x.cs) : x.cs[k] \in DOMAIN Digit
            THEN Num(DigitsValue(x.cs))
            ELSE Err("ValueError", "invalid literal for int()")
      [] OTHER -> Err("TypeError", "int() argument must be a string or a number")

----------------------------------------------------------------------------
(* ulogger/syslog.py *)

SYSLOG_UDP_PORT == 514
FACILITY == 16

\* _get_environ with the platform looked at before SYSLOG_HOST
_get_environ_PlatformFirst(env, plat, exists) ==
    LET syslog_host == Get(env, "SYSLOG_HOST", None)
    IN  IF plat = "darwin" /\ exists THEN "darwin"
        ELSE IF Truthy(syslog_host) THEN "remote"
        ELSE "default"

\* _get_environ testing "syslog_host is not None" instead of its truth value
_get_environ_IsNotNone(env, plat, exists) ==
    LET syslog_host == Get(env, "SYSLOG_HOST", None)
    IN  IF syslog_host # None THEN "remote"
        ELSE IF plat = "darwin" /\ exists THEN "darwin"
        ELSE "default"

\* SyslogHandlerBuilder._get_environ
_get_environ(env, plat, exists) ==
    LET syslog_host == Get(env, "SYSLOG_HOST", None)
    IN  IF Truthy(syslog_host) THEN "remote"
        ELSE IF plat = "darwin" /\ exists THEN "darwin"
        ELSE "default"

\* _get_address with a given port left as it is, not passed through int()
_get_address_NoCoercion(address, _environ, env) ==
    IF Truthy(address) THEN
        IF address.t # "str" /\ Len(address.v) = 2 /\ address.v[2] = None
        THEN Tup(<<address.v[1], Num(SYSLOG_UDP_PORT)>>)
        ELSE address
    ELSE
        CASE _environ = "default" -> Str("/dev/log")
          [] _environ = "darwin" -> Str("/var/run/syslog")
          [] _environ = "remote" ->
                LET port == PyInt(Get(env, "SYSLOG_PORT", Num(SYSLOG_UDP_PORT)))
                IN  IF IsErr(port) THEN port
                    ELSE Tup(<<Get(env, "SYSLOG_HOST", None), port>>)

\* _get_address with the remote environment consulted before the argument
_get_address_EnvironFirst(address, _environ, env) ==
    IF _environ = "remote" THEN
        LET port == PyInt(Get(env, "SYSLOG_PORT", Num(SYSLOG_UDP_PORT)))
        IN  IF IsErr(port) THEN port
            ELSE Tup(<<Get(env, "SYSLOG_HOST", None), port>>)
    ELSE IF Truthy(address) THEN
        IF address.t # "str" /\ Len(address.v) = 2 THEN
            IF address.v[2] = None
            THEN Tup(<<address.v[1], Num(SYSLOG_UDP_PORT)>>)
            ELSE LET port == PyInt(address.v[2])
                 IN  IF IsErr(port) THEN port ELSE Tup(<<address.v[1], port>>)
        ELSE address
    ELSE IF _environ = "darwin" THEN Str("/var/run/syslog")
    ELSE Str("/dev/log")

\* _get_address with SYSLOG_PORT used as the str it is, not passed through int()
_get_address_EnvPortRaw(address, _environ, env) ==
    IF Truthy(address) THEN
        IF address.t # "str" /\ Len(address.v) = 2 THEN
            IF address.v[2] = None
            THEN Tup(<<address.v[1], Num(SYSLOG_UDP_PORT)>>)
            ELSE LET port == PyInt(address.v[2])
                 IN  IF IsErr(port) THEN port ELSE Tup(<<address.v[1], port>>)
        ELSE address
    ELSE
        CASE _environ = "default" -> Str("/dev/log")
          [] _environ = "darwin" -> Str("/var/run/syslog")
          [] _environ = "remote" ->
                Tup(<<Get(env, "SYSLOG_HOST", None),
                      Get(env, "SYSLOG_PORT", Num(SYSLOG_UDP_PORT))>>)

\* _get_address falling back to port 514 where int() rejects the port
_get_address_DefaultOnBadPort(address, _environ, env) ==
    IF Truthy(address) THEN
        IF address.t # "str" /\ Len(address.v) = 2 THEN
            IF address.v[2] = None
            THEN Tup(<<address.v[1], Num(SYSLOG_UDP_PORT)>>)
            ELSE LET port == PyInt(address.v[2])
                 IN  IF IsErr(port) THEN Tup(<<address.v[1], Num(SYSLOG_UDP_PORT)>>)
                     ELSE Tup(<<address.v[1], port>>)
        ELSE address
    ELSE
        CASE _environ = "default" -> Str("/dev/log")
          [] _environ = "darwin" -> Str("/var/run/syslog")
          [] _environ = "remote" ->
                LET port == PyInt(Get(env, "SYSLOG_PORT", Num(SYSLOG_UDP_PORT)))
                IN  IF IsErr(port)
                    THEN Tup(<<Get(env, "SYSLOG_HOST", None), Num(SYSLOG_UDP_PORT)>>)
                    ELSE Tup(<<Get(env, "SYSLOG_HOST", None), port>>)

\* SyslogHandlerBuilder._get_address: the address, or the error int() raises
_get_address(address, _environ, env) ==
    IF Truthy(address) THEN
        IF address.t # "str" /\ Len(address.v) = 2 THEN
            IF address.v[2] = None
            THEN Tup(<<address.v[1], Num(SYSLOG_UDP_PORT)>>)
            ELSE LET port == PyInt(address.v[2])
                 IN  IF IsErr(port) THEN port ELSE Tup(<<address.v[1], port>>)
        ELSE address
    ELSE
        CASE _environ = "default" -> Str("/dev/log")
          [] _environ = "darwin" -> Str("/var/run/syslog")
          [] _environ = "remote" ->
                LET port == PyInt(Get(env, "SYSLOG_PORT", Num(SYSLOG_UDP_PORT)))
                IN  IF IsErr(port) THEN port
                    ELSE Tup(<<Get(env, "SYSLOG_HOST", None), port>>)

\* SyslogHandlerBuilder.__init__: the builder object, or the error raised
SyslogHandlerBuilder(progname, address, proto, facility, fmt, datefmt, env, plat, exists) ==
    LET _environ == _get_environ(env, plat, exists)
        addr == _get_address(address, _environ, env)
    IN  IF IsErr(addr) THEN addr
        ELSE [t |-> "SyslogHandlerBuilder",
              progname |-> progname,
              _environ |-> _environ,
              fmt |-> fmt,
              datefmt |-> datefmt,
              facility |-> Or(facility, Num(FACILITY)),
              address |-> addr,
              proto |-> Or(proto, Num(2))]

\* SyslogHandlerBuilder._get_osx_formatter: the builder afterwards
_get_osx_formatter(b) ==
    IF ~Truthy(b.fmt)
    THEN [b EXCEPT !.fmt = Str(b.progname \o " (%(process)d): %(message)s")]
    ELSE b

\* _get_default_formatter with the date format defaulted only where the
\* format is defaulted too
_get_default_formatter_Nested(b) ==
    IF ~Truthy(b.fmt)
    THEN LET b1 == [b EXCEPT !.fmt = Str("%(asctime)s.%(msecs)03dZ " \o b.progname
                                         \o " (%(process)d): %(message)s")]
         IN  IF ~Truthy(b1.datefmt)
             THEN [b1 EXCEPT !.datefmt = Str("%Y-%m-%dT%H:%M:%S")]
             ELSE b1
    ELSE b

\* SyslogHandlerBuilder._get_default_formatter: the builder afterwards
_get_default_formatter(b) ==
    LET b1 == IF ~Truthy(b.fmt)
              THEN [b EXCEPT !.fmt = Str("%(asctime)s.%(msecs)03dZ " \o b.progname
                                         \o " (%(process)d): %(message)s")]
              ELSE b
    IN  IF ~Truthy(b1.datefmt)
        THEN [b1 EXCEPT !.datefmt = Str("%Y-%m-%dT%H:%M:%S")]
        ELSE b1

\* get_formatter without the darwin branch
get_formatter_AlwaysDefault(b) == _get_default_formatter(b)

\* SyslogHandlerBuilder.get_formatter: the builder afterwards; the formatter
\* returned is logging.Formatter(fmt, datefmt) of its fields
get_formatter(b) ==
    IF b._environ = "darwin" THEN _get_osx_formatter(b)
    ELSE _get_default_formatter(b)

Formatter(b) ==
    [fmt |-> b.fmt,
     datefmt |-> IF b._environ = "darwin" THEN None ELSE b.datefmt]

\* logging.handlers.SysLogHandler(address, facility, socktype): a str is a unix
\* socket path, anything else is unpacked as (host, port)
SysLogHandler(address, facility, socktype) ==
    IF address.t # "str" /\ Len(address.v) # 2
    THEN Err("ValueError", "not enough values to unpack")
    ELSE [t |-> "SysLogHandler", address |-> address, facility |-> facility,
          socktype |-> socktype, formatter |-> None]

\* BuilderGetHandler with socktype not handed to SysLogHandler, which then
\* takes its own default, SOCK_DGRAM
BuilderGetHandler_DefaultSocktype(b) ==
    LET h == SysLogHandler(b.address, b.facility, Num(2))
    IN  IF IsErr(h) THEN <<b, h>>
        ELSE LET b1 == get_formatter(b)
             IN  <<b1, [h EXCEPT !.formatter = Formatter(b1)]>>

\* SyslogHandlerBuilder.get_handler: <<the builder afterwards, the handler or
\* the error raised>>
BuilderGetHandler(b) ==
    LET h == SysLogHandler(b.address, b.facility, b.proto)
    IN  IF IsErr(h) THEN <<b, h>>
        ELSE LET b1 == get_formatter(b)
             IN  <<b1, [h EXCEPT !.formatter = Formatter(b1)]>>

\* ulogger.syslog.get_handler(progname, **kwargs)
syslog_get_handler(progname, kw, env, plat, exists) ==
    LET b == SyslogHandlerBuilder(progname, Get(kw, "address", None),
                 Get(kw, "proto", None), Get(kw, "facility", None),
                 Get(kw, "fmt", None), Get(kw, "datefmt", None),
                 env, plat, exists)
    IN  IF IsErr(b) THEN b ELSE BuilderGetHandler(b)[2]

----------------------------------------------------------------------------
(* ulogger/stackdriver.py *)

MetadataKeys == {"project-id", "name", "id", "zone"}

Whitespace == {" ", "\n", "\t"}

\* str.strip()
RECURSIVE strip(_)
strip(cs) ==
    IF cs = <<>> THEN cs
    ELSE IF Head(cs) \in Whitespace THEN strip(Tail(cs))
    ELSE IF cs[Len(cs)] \in Whitespace THEN strip(SubSeq(cs, 1, Len(cs) - 1))
    ELSE cs

\* split('/')[-1] left out: the zone value as fetched
LastSegment_Whole(cs) == cs

\* str.split('/')[-1]: what follows the last '/', the whole str without one
RECURSIVE LastSegment(_)
LastSegment(cs) ==
    IF cs = <<>> THEN cs
    ELSE IF cs[Len(cs)] = "/" THEN <<>>
    ELSE Append(LastSegment(SubSeq(cs, 1, Len(cs) - 1)), cs[Len(cs)])

\* _get_metadata comparing the body with '' without strip()
_get_metadata_NoStrip(key, rsp) ==
    IF rsp.status # "ok"
    THEN Err("GoogleCloudError", "Could not fetch \"" \o key \o "\"")
    ELSE IF rsp.text = <<>>
    THEN Err("GoogleCloudError", "server returned an empty value")
    ELSE Text(rsp.text)

\* CloudLoggingHandlerBuilder._get_metadata on the response rsp of the GET for
\* key: the body, or the GoogleCloudError raised
_get_metadata(key, rsp) ==
    IF rsp.status # "ok"
    THEN Err("GoogleCloudError", "Could not fetch \"" \o key \o "\"")
    ELSE IF strip(rsp.text) = <<>>
    THEN Err("GoogleCloudError", "server returned an empty value")
    ELSE Text(rsp.text)

\* CloudLoggingHandlerBuilder._create_gcl_resource
_create_gcl_resource(project_id, instance_id, zone) ==
    [type |-> "gce_instance",
     labels |-> [project_id |-> project_id, instance_id |-> instance_id,
                 zone |-> zone]]

\* CloudLoggingHandlerBuilder.__init__ against the metadata server md:
\* <<the builder or the error raised, the keys fetched in order>>
CloudLoggingHandlerBuilder(progname, fmt, datefmt, project_id, credentials, debug_thread_worker, md) ==
    LET own == Truthy(project_id)
        pid == IF own THEN project_id ELSE _get_metadata("project-id", md["project-id"])
        g1 == IF own THEN <<>> ELSE <<"project-id">>
        hostname == _get_metadata("name", md["name"])
        instance_id == _get_metadata("id", md["id"])
        zone_str == _get_metadata("zone", md["zone"])
    IN  IF IsErr(pid) THEN <<pid, g1>>
        ELSE IF IsErr(hostname) THEN <<hostname, g1 \o <<"name">>>>
        ELSE IF IsErr(instance_id) THEN <<instance_id, g1 \o <<"name", "id">>>>
        ELSE IF IsErr(zone_str) THEN <<zone_str, g1 \o <<"name", "id", "zone">>>>
        ELSE <<[t |-> "CloudLoggingHandlerBuilder",
                project_id |-> pid,
                progname |-> progname,
                fmt |-> fmt,
                datefmt |-> datefmt,
                credentials |-> credentials,
                debug_thread_worker |-> debug_thread_worker,
                hostname |-> hostname,
                instance_id |-> instance_id,
                zone |-> Text(LastSegment(zone_str.cs)),
                resource |-> _create_gcl_resource(pid, instance_id,
                                                  Text(LastSegment(zone_str.cs)))],
               g1 \o <<"name", "id", "zone">>>>

\* CloudLoggingHandlerBuilder.get_formatter: the builder afterwards.  The
\* default format is the template with the hostname and the program name in it
cloud_get_formatter(b) ==
    LET b1 == IF ~Truthy(b.fmt)
              THEN [b EXCEPT !.fmt =
                       [t |-> "str",
                        parts |-> <<"%(asctime)s.%(msecs)03d ", b.hostname, " ",
                                    b.progname, " (%(process)d): %(message)s">>]]
              ELSE b
    IN  IF ~Truthy(b1.datefmt)
        THEN [b1 EXCEPT !.datefmt = Str("%Y-%m-%dT%H:%M:%S")]
        ELSE b1

\* CloudLoggingHandlerBuilder._set_worker_thread_level: the level it sets
_set_worker_thread_level(b) ==
    IF Truthy(b.debug_thread_worker) THEN 10 ELSE 20

\* CloudLoggingHandlerBuilder.get_handler: <<the builder afterwards, the handler>>
CloudGetHandler(b) ==
    LET b1 == cloud_get_formatter(b)
    IN  <<b1,
          [t |-> "CloudLoggingHandler",
           client |-> [project |-> b.project_id, credentials |-> b.credentials],
           resource |-> b.resource,
           labels |-> [resource_id |-> b.instance_id,
                       resource_project |-> b.project_id,
                       resource_zone |-> b.zone,
                       resource_host |-> b.hostname],
           formatter |-> [fmt |-> b1.fmt, datefmt |-> b1.datefmt]]>>

\* ulogger.stackdriver.get_handler(progname, **kwargs): <<the handler or the
\* error raised, the worker thread logger's level afterwards>>
stackdriver_get_handler(progname, kw, md, level) ==
    LET made == CloudLoggingHandlerBuilder(progname, Get(kw, "fmt", None),
                    Get(kw, "datefmt", None), Get(kw, "project_id", None),
                    Get(kw, "credentials", None),
                    Get(kw, "debug_thread_worker", False), md)
        b == made[1]
    IN  IF IsErr(b) THEN <<b, level>>
        ELSE <<CloudGetHandler(b)[2], _set_worker_thread_level(b)>>

----------------------------------------------------------------------------
(* ulogger/ulogger.py *)

\* _setup_default_handler(progname, fmt=None, datefmt=None, **_)
_setup_default_handler(progname, fmt, datefmt) ==
    LET f == IF ~Truthy(fmt)
             THEN Str("%(asctime)s.%(msecs)03dZ " \o progname
                      \o " (%(process)d) %(levelname)s: %(message)s")
             ELSE fmt
        d == IF ~Truthy(datefmt) THEN Str("%Y-%m-%dT%H:%M:%S") ELSE datefmt
    IN  [t |-> "StreamHandler", formatter |-> [fmt |-> f, datefmt |-> d]]

\* The modules of the package that import_module('ulogger.<h>') finds, and
\* those of them that define get_handler
Modules == {"ulogger.syslog", "ulogger.stackdriver", "ulogger.ulogger",
            "ulogger.exceptions"}
WithGetHandler == {"ulogger.syslog", "ulogger.stackdriver"}

\* import_handler_module with the ImportError left to propagate as it is
import_handler_module_Unwrapped(h) ==
    LET handler_module_path == "ulogger." \o h
    IN  IF handler_module_path \in Modules THEN Str(handler_module_path)
        ELSE Err("ImportError", "No module named '" \o handler_module_path \o "'")

\* import_module(handler_module_path, package='ulogger'): the module, or the
\* ULoggerError that replaces the ImportError
import_handler_module(h) ==
    LET handler_module_path == "ulogger." \o h
    IN  IF handler_module_path \in Modules THEN Str(handler_module_path)
        ELSE Err("ULoggerError", "Unsupported log handler: \"" \o h \o "\".")

\* getattr_get_handler with the message raised before it is formatted
getattr_get_handler_Unformatted(module, h) ==
    IF module.v \in WithGetHandler THEN True
    ELSE Err("ULoggerError", "\"get_handler\" function not implemented for \"{}\".")

\* getattr(handler_module, 'get_handler'): whether it is there, or the
\* ULoggerError that replaces the AttributeError
getattr_get_handler(module, h) ==
    IF module.v \in WithGetHandler THEN True
    ELSE Err("ULoggerError",
             "\"get_handler\" function not implemented for \"" \o h \o "\".")

\* get_handler(progname, **kwargs) of the module: <<the handler or the error
\* raised, the worker thread logger's level afterwards>>
call_get_handler(module, progname, kw, env, plat, exists, md, wlevel) ==
    IF module.v = "ulogger.syslog"
    THEN <<syslog_get_handler(progname, kw, env, plat, exists), wlevel>>
    ELSE stackdriver_get_handler(progname, kw, md, wlevel)

\* Logger.addHandler: appended unless that very object is attached already
addHandler(hs, h) ==
    IF \E k \in 1..Len(hs) : hs[k].id = h.id THEN hs ELSE Append(hs, h)

\* logging.getLevelName(level) for a str: the number of a known name, and
\* the str 'Level <name>' for any other
LevelNumbers == [n \in {"CRITICAL", "ERROR", "WARNING", "INFO", "DEBUG", "NOTSET"} |->
                    CASE n = "CRITICAL" -> 50 [] n = "ERROR" -> 40
                      [] n = "WARNING" -> 30 [] n = "INFO" -> 20
                      [] n = "DEBUG" -> 10 [] n = "NOTSET" -> 0]

getLevelName(level) ==
    IF level \in DOMAIN LevelNumbers THEN Num(LevelNumbers[level])
    ELSE Str("Level " \o level)

\* Logger.setLevel(level): the level stored, or the ValueError for a str that
\* names no level
setLevel(level) ==
    IF level.t = "int" THEN level
    ELSE IF level.v \in DOMAIN LevelNumbers THEN Num(LevelNumbers[level.v])
    ELSE Err("ValueError", "Unknown level: " \o level.v)

\* One entry of the record of calls a setup_logging call makes: the callee,
\* the loop index, its positional argument, its keyword arguments, and the
\* identity of the handler it returned or handled (0: none), or the error raised
Called(op, k, a, kw, ret) == [op |-> op, i |-> k, a |-> a, kw |-> kw, ret |-> ret]
Outcome(x) == IF "id" \in DOMAIN x THEN Num(x.id) ELSE IF IsErr(x) THEN x ELSE Num(0)

NoKwargs == [k \in {} |-> None]

\* Call that first empties the root logger's handler list
Call_Reset(progname, level, handlers, kwargs) ==
    /\ pc = "idle"
    /\ pc' = "for"
    /\ args' = [progname |-> progname, level |-> level, handlers |-> handlers,
                kwargs |-> kwargs]
    /\ i' = 1
    /\ handler_module' = None
    /\ handler' = None
    /\ raised' = None
    /\ calls' = <<>>
    /\ rootHandlers' = <<>>
    /\ entry' = [handlers |-> <<>>, level |-> rootLevel]
    /\ UNCHANGED <<envVars, completed, rootLevel, nextId, workerLevel, builderVars>>

\* Call with the root logger's level set on entry, before the handler list
\* is processed
Call_LevelFirst(progname, level, handlers, kwargs) ==
    /\ pc = "idle"
    /\ pc' = "for"
    /\ args' = [progname |-> progname, level |-> level, handlers |-> handlers,
                kwargs |-> kwargs]
    /\ i' = 1
    /\ handler_module' = None
    /\ handler' = None
    /\ raised' = None
    /\ calls' = <<>>
    /\ entry' = [handlers |-> rootHandlers, level |-> rootLevel]
    /\ LET lv == setLevel(getLevelName(level))
       IN  rootLevel' = IF IsErr(lv) THEN rootLevel ELSE lv.v
    /\ UNCHANGED <<envVars, completed, rootHandlers, nextId, workerLevel, builderVars>>

\* setup_logging is entered
Call(progname, level, handlers, kwargs) ==
    /\ pc = "idle"
    /\ pc' = "for"
    /\ args' = [progname |-> progname, level |-> level, handlers |-> handlers,
                kwargs |-> kwargs]
    /\ i' = 1
    /\ handler_module' = None
    /\ handler' = None
    /\ raised' = None
    /\ calls' = <<>>
    /\ entry' = [handlers |-> rootHandlers, level |-> rootLevel]
    /\ UNCHANGED <<envVars, completed, rootVars, builderVars>>

\* for h in handlers: h == 'stream'
LoopStream ==
    /\ pc = "for"
    /\ i <= Len(args.handlers)
    /\ args.handlers[i] = "stream"
    /\ LET h == _setup_default_handler(args.progname,
                    Get(args.kwargs, "fmt", None), Get(args.kwargs, "datefmt", None))
           obj == [id |-> nextId, h |-> h]
       IN  /\ handler' = obj
           /\ calls' = Append(calls, Called("_setup_default_handler", i,
                                            args.progname, args.kwargs, Outcome(obj)))
    /\ nextId' = nextId + 1
    /\ pc' = "add"
    /\ UNCHANGED <<envVars, completed, rootHandlers, rootLevel, workerLevel, args, i,
                   handler_module, raised, entry, builderVars>>

\* for h in handlers: the import of ulogger.<h>
LoopImport ==
    /\ pc = "for"
    /\ i <= Len(args.handlers)
    /\ args.handlers[i] # "stream"
    /\ LET m == import_handler_module(args.handlers[i])
       IN  /\ calls' = Append(calls, Called("import_module", i,
                                 "ulogger." \o args.handlers[i], NoKwargs, Outcome(m)))
           /\ IF IsErr(m)
              THEN /\ raised' = m
                   /\ pc' = "raised"
                   /\ UNCHANGED handler_module
              ELSE /\ handler_module' = m
                   /\ pc' = "getattr"
                   /\ UNCHANGED raised
    /\ UNCHANGED <<envVars, completed, rootVars, args, i, handler, entry, builderVars>>

\* get_handler = getattr(handler_module, 'get_handler')
LoopGetattr ==
    /\ pc = "getattr"
    /\ LET g == getattr_get_handler(handler_module, args.handlers[i])
       IN  /\ calls' = Append(calls, Called("getattr", i, handler_module.v,
                                            NoKwargs, Outcome(g)))
           /\ IF IsErr(g)
              THEN raised' = g /\ pc' = "raised"
              ELSE pc' = "call" /\ UNCHANGED raised
    /\ UNCHANGED <<envVars, completed, rootVars, args, i, handler_module, handler, entry,
                   builderVars>>

\* LoopCall with the handlers attached so far detached when get_handler raises
LoopCall_Rollback ==
    /\ pc = "call"
    /\ LET r == call_get_handler(handler_module, args.progname, args.kwargs,
                    environ, platform, pathExists, metadata, workerLevel)
           obj == IF IsErr(r[1]) THEN r[1] ELSE [id |-> nextId, h |-> r[1]]
       IN  /\ calls' = Append(calls, Called("get_handler", i, args.progname,
                                            args.kwargs, Outcome(obj)))
           /\ workerLevel' = r[2]
           /\ IF IsErr(r[1])
              THEN /\ raised' = r[1]
                   /\ pc' = "raised"
                   /\ rootHandlers' = entry.handlers
                   /\ UNCHANGED <<handler, nextId>>
              ELSE /\ handler' = obj
                   /\ nextId' = nextId + 1
                   /\ pc' = "add"
                   /\ UNCHANGED <<raised, rootHandlers>>
    /\ UNCHANGED <<envVars, completed, rootLevel, args, i, handler_module, entry, builderVars>>

\* LoopCall with get_handler(progname) called without the keyword arguments
LoopCall_NoKwargs ==
    /\ pc = "call"
    /\ LET r == call_get_handler(handler_module, args.progname, NoKwargs,
                    environ, platform, pathExists, metadata, workerLevel)
           obj == IF IsErr(r[1]) THEN r[1] ELSE [id |-> nextId, h |-> r[1]]
       IN  /\ calls' = Append(calls, Called("get_handler", i, args.progname,
                                            NoKwargs, Outcome(obj)))
           /\ workerLevel' = r[2]
           /\ IF IsErr(r[1])
              THEN /\ raised' = r[1]
                   /\ pc' = "raised"
                   /\ UNCHANGED <<handler, nextId>>
              ELSE /\ handler' = obj
                   /\ nextId' = nextId + 1
                   /\ pc' = "add"
                   /\ UNCHANGED raised
    /\ UNCHANGED <<envVars, completed, rootHandlers, rootLevel, args, i, handler_module,
                   entry, builderVars>>

\* handler = get_handler(progname, **kwargs)
LoopCall ==
    /\ pc = "call"
    /\ LET r == call_get_handler(handler_module, args.progname, args.kwargs,
                    environ, platform, pathExists, metadata, workerLevel)
           obj == IF IsErr(r[1]) THEN r[1] ELSE [id |-> nextId, h |-> r[1]]
       IN  /\ calls' = Append(calls, Called("get_handler", i, args.progname,
                                            args.kwargs, Outcome(obj)))
           /\ workerLevel' = r[2]
           /\ IF IsErr(r[1])
              THEN /\ raised' = r[1]
                   /\ pc' = "raised"
                   /\ UNCHANGED <<handler, nextId>>
              ELSE /\ handler' = obj
                   /\ nextId' = nextId + 1
                   /\ pc' = "add"
                   /\ UNCHANGED raised
    /\ UNCHANGED <<envVars, completed, rootHandlers, rootLevel, args, i, handler_module,
                   entry, builderVars>>

\* LoopAdd with the handler list assigned instead of extended
LoopAdd_Replace ==
    /\ pc = "add"
    /\ rootHandlers' = <<handler>>
    /\ calls' = Append(calls, Called("addHandler", i, "", NoKwargs, Outcome(handler)))
    /\ i' = i + 1
    /\ pc' = "for"
    /\ UNCHANGED <<envVars, completed, rootLevel, nextId, workerLevel, args, handler_module,
                   handler, raised, entry, builderVars>>

\* logging.getLogger('').addHandler(handler), and on to the next name
LoopAdd ==
    /\ pc = "add"
    /\ rootHandlers' = addHandler(rootHandlers, handler)
    /\ calls' = Append(calls, Called("addHandler", i, "", NoKwargs, Outcome(handler)))
    /\ i' = i + 1
    /\ pc' = "for"
    /\ UNCHANGED <<envVars, completed, rootLevel, nextId, workerLevel, args, handler_module,
                   handler, raised, entry, builderVars>>

\* SetLevel inside the loop body: it runs after each attachment as well
SetLevel_InLoop ==
    /\ pc = "for"
    /\ i > 1
    /\ LET lv == setLevel(getLevelName(args.level))
       IN  /\ calls' = Append(calls, Called("setLevel", i, args.level, NoKwargs,
                                            Outcome(lv)))
           /\ IF IsErr(lv)
              THEN raised' = lv /\ pc' = "raised" /\ UNCHANGED rootLevel
              ELSE /\ rootLevel' = lv.v
                   /\ pc' = IF i > Len(args.handlers) THEN "done" ELSE "for"
                   /\ UNCHANGED raised
    /\ UNCHANGED <<envVars, completed, rootHandlers, nextId, workerLevel, args, i,
                   handler_module, handler, entry, builderVars>>

\* after the loop: level = logging.getLevelName(level);
\* logging.getLogger('').setLevel(level)
SetLevel ==
    /\ pc = "for"
    /\ i > Len(args.handlers)
    /\ LET lv == setLevel(getLevelName(args.level))
       IN  /\ calls' = Append(calls, Called("setLevel", i, args.level, NoKwargs, Outcome(lv)))
           /\ IF IsErr(lv)
              THEN raised' = lv /\ pc' = "raised" /\ UNCHANGED rootLevel
              ELSE rootLevel' = lv.v /\ pc' = "done" /\ UNCHANGED raised
    /\ UNCHANGED <<envVars, completed, rootHandlers, nextId, workerLevel, args, i,
                   handler_module, handler, entry, builderVars>>

\* setup_logging returns, or its exception reaches the caller: the frame is gone
Return ==
    /\ pc \in {"done", "raised"}
    /\ pc' = "idle"
    /\ args' = None
    /\ i' = 0
    /\ handler_module' = None
    /\ handler' = None
    /\ raised' = None
    /\ calls' = <<>>
    /\ entry' = None
    /\ completed' =
          IF pc = "done"
          THEN [attached |-> completed.attached + Len(args.handlers),
                level |-> args.level]
          ELSE [completed EXCEPT
                  !.attached = @ + (Len(rootHandlers) - Len(entry.handlers))]
    /\ UNCHANGED <<envVars, rootVars, builderVars>>

----------------------------------------------------------------------------
(* The inputs explored *)

MaxAttached == 3

BoundedSeq(S, n) == UNION {[1..k -> S] : k \in 0..n}

HandlerNames == {"stream", "syslog", "stackdriver", "exceptions", "notahandler"}
Prognames == {"foo"}
LevelArgs == {"INFO", "DEBUG", "BOGUS"}

DispatchKwargs ==
    {NoKwargs,
     "fmt" :> Str("%(message)s") @@ "address" :> Tup(<<Str("loghost"), Text(<<"a">>)>>)}

Rsp(status, text) == [status |-> status, text |-> text]

MetadataUp ==
    [k \in MetadataKeys |->
        CASE k = "project-id" -> Rsp("ok", <<"p">>)
          [] k = "name" -> Rsp("ok", <<"n">>)
          [] k = "id" -> Rsp("ok", <<"7">>)
          [] k = "zone" -> Rsp("ok", <<"z", "/", "b">>)]

\* The two hosts the dispatcher is run on: one with no syslog variables and a
\* metadata server that answers, one with a remote syslog and a metadata
\* server whose instance id is blank
DispatchHosts ==
    {[environ |-> NoKwargs, metadata |-> MetadataUp],
     [environ |-> "SYSLOG_HOST" :> Str("loghost")
                  @@ "SYSLOG_PORT" :> Text(<<"5", "1", "5">>),
      metadata |-> [MetadataUp EXCEPT !["id"] = Rsp("ok", <<" ">>)]]}

Init ==
    /\ \E host \in DispatchHosts :
          environ = host.environ /\ metadata = host.metadata
    /\ platform = "linux"
    /\ pathExists = FALSE
    /\ rootHandlers = <<>>
    /\ rootLevel = 30
    /\ workerLevel = 0
    /\ nextId = 1
    /\ pc = "idle"
    /\ args = None
    /\ i = 0
    /\ handler_module = None
    /\ handler = None
    /\ raised = None
    /\ calls = <<>>
    /\ entry = None
    /\ builder = None
    /\ given = None
    /\ product = None
    /\ requests = <<>>
    /\ completed = [attached |-> 0, level |-> "WARNING"]

Enter ==
    \E progname \in Prognames, level \in LevelArgs, kwargs \in DispatchKwargs :
        \E handlers \in BoundedSeq(HandlerNames, MaxAttached - Len(rootHandlers)) :
            Call(progname, level, handlers, kwargs)

Next ==
    \/ Enter
    \/ LoopStream
    \/ LoopImport
    \/ LoopGetattr
    \/ LoopCall
    \/ LoopAdd
    \/ SetLevel
    \/ Return

Spec == Init /\ [][Next]_vars

----------------------------------------------------------------------------
(* The syslog builder used directly: SyslogHandlerBuilder(...) on a host,    *)
(* then get_formatter() and get_handler() on the object                      *)

NewSyslogHandlerBuilder(progname, address, proto, facility, fmt, datefmt) ==
    /\ given = None
    /\ given' = [progname |-> progname, address |-> address, proto |-> proto,
                 facility |-> facility, fmt |-> fmt, datefmt |-> datefmt]
    /\ LET b == SyslogHandlerBuilder(progname, address, proto, facility, fmt,
                                     datefmt, environ, platform, pathExists)
       IN  IF IsErr(b)
           THEN builder' = None /\ product' = b
           ELSE builder' = b /\ product' = None
    /\ UNCHANGED <<envVars, completed, rootVars, frameVars, requests>>

CallGetFormatter ==
    /\ builder # None
    /\ builder' = get_formatter(builder)
    /\ product' = [t |-> "Formatter"] @@ Formatter(builder')
    /\ UNCHANGED <<envVars, completed, rootVars, frameVars, given, requests>>

CallGetHandler ==
    /\ builder # None
    /\ builder' = BuilderGetHandler(builder)[1]
    /\ product' = BuilderGetHandler(builder)[2]
    /\ UNCHANGED <<envVars, completed, rootVars, frameVars, given, requests>>

SyslogHostValues == {None, Str(""), Str("loghost")}
SyslogPortValues == {None, Text(<<>>), Text(<<"5", "1", "5">>), Text(<<"5", "x">>)}
Platforms == {"linux", "darwin", "win32"}

\* os.environ with the variables whose value is not None set
Environ(host, port) ==
    [k \in {n \in {"SYSLOG_HOST", "SYSLOG_PORT"} :
              IF n = "SYSLOG_HOST" THEN host # None ELSE port # None} |->
        IF k = "SYSLOG_HOST" THEN host ELSE port]

AddressArgs ==
    {None, Str(""), Str("/tmp/log"), Tup(<<>>), Tup(<<Str("h")>>),
     Tup(<<Str("h"), None>>), Tup(<<Str("h"), Num(0)>>), Tup(<<Str("h"), Num(1514)>>),
     Tup(<<Str("h"), Text(<<"0", "6", "0", "1">>)>>), Tup(<<Str("h"), Text(<<"6", "a">>)>>),
     Tup(<<Str("h"), Text(<<>>)>>), Tup(<<Str("h"), Num(514), Num(0)>>)}
ProtoArgs == {None, Num(0), Num(1)}
FacilityArgs == {None, Num(0), Num(1)}
FmtArgs == {None, Str(""), Str("%(message)s")}
DatefmtArgs == {None, Str("%H:%M")}

SyslogInit ==
    /\ \E host \in SyslogHostValues, port \in SyslogPortValues :
          environ = Environ(host, port)
    /\ platform \in Platforms
    /\ pathExists \in BOOLEAN
    /\ metadata = MetadataUp
    /\ rootHandlers = <<>>
    /\ rootLevel = 30
    /\ workerLevel = 0
    /\ nextId = 1
    /\ pc = "idle"
    /\ args = None
    /\ i = 0
    /\ handler_module = None
    /\ handler = None
    /\ raised = None
    /\ calls = <<>>
    /\ entry = None
    /\ builder = None
    /\ given = None
    /\ product = None
    /\ requests = <<>>
    /\ completed = [attached |-> 0, level |-> "WARNING"]

Construct ==
    \E progname \in Prognames, address \in AddressArgs, proto \in ProtoArgs,
       facility \in FacilityArgs, fmt \in FmtArgs, datefmt \in DatefmtArgs :
        NewSyslogHandlerBuilder(progname, address, proto, facility, fmt, datefmt)

SyslogNext ==
    \/ Construct
    \/ CallGetFormatter
    \/ CallGetHandler

SyslogSpec == SyslogInit /\ [][SyslogNext]_vars

----------------------------------------------------------------------------
(* The cloud builder under direct use: constructed once against a metadata
   server whose responses are any of those below, then asked for formatters
   and handlers *)

\* CloudLoggingHandlerBuilder(progname, fmt, datefmt, project_id, credentials,
\* debug_thread_worker)
NewCloudLoggingHandlerBuilder(progname, fmt, datefmt, project_id, credentials, debug_thread_worker) ==
    /\ given = None
    /\ given' = [progname |-> progname, fmt |-> fmt, datefmt |-> datefmt,
                 project_id |-> project_id, credentials |-> credentials,
                 debug_thread_worker |-> debug_thread_worker]
    /\ LET made == CloudLoggingHandlerBuilder(progname, fmt, datefmt, project_id,
                       credentials, debug_thread_worker, metadata)
       IN  /\ requests' = requests \o made[2]
           /\ IF IsErr(made[1])
              THEN builder' = None /\ product' = made[1]
              ELSE builder' = made[1] /\ product' = None
    /\ UNCHANGED <<envVars, completed, rootVars, frameVars>>

\* builder.get_formatter()
CallCloudGetFormatter ==
    /\ builder # None
    /\ builder' = cloud_get_formatter(builder)
    /\ product' = [t |-> "Formatter", fmt |-> builder'.fmt,
                   datefmt |-> builder'.datefmt]
    /\ UNCHANGED <<envVars, completed, rootVars, frameVars, given, requests>>

\* get_handler that fetches the instance name again
CallCloudGetHandler_Refetch ==
    /\ builder # None
    /\ builder' = CloudGetHandler(builder)[1]
    /\ product' = CloudGetHandler(builder)[2]
    /\ workerLevel' = _set_worker_thread_level(builder)
    /\ requests' = Append(requests, "name")
    /\ UNCHANGED <<envVars, completed, rootHandlers, rootLevel, nextId, frameVars, given>>

\* builder.get_handler()
CallCloudGetHandler ==
    /\ builder # None
    /\ builder' = CloudGetHandler(builder)[1]
    /\ product' = CloudGetHandler(builder)[2]
    /\ workerLevel' = _set_worker_thread_level(builder)
    /\ UNCHANGED <<envVars, completed, rootHandlers, rootLevel, nextId, frameVars, given,
                   requests>>

\* The responses of the metadata server to the GET for key k: a body, a
\* transport error, an error status, an empty body, a body of whitespace
Responses(k) ==
    {Rsp("neterr", <<>>), Rsp("httperr", <<>>), Rsp("ok", <<>>)} \cup
    CASE k = "project-id" -> {Rsp("ok", <<"p">>), Rsp("ok", <<" ">>)}
      [] k = "name" -> {Rsp("ok", <<"n">>)}
      [] k = "id" -> {Rsp("ok", <<"7", "\n">>), Rsp("ok", <<"\n">>)}
      [] k = "zone" -> {Rsp("ok", <<"z", "/", "b">>), Rsp("ok", <<"b">>),
                        Rsp("ok", <<"a", "/", "z", "/", "b">>),
                        Rsp("ok", <<"z", "/">>), Rsp("ok", <<"\t", " ">>)}

ProjectIdArgs == {None, Text(<<>>), Text(<<"q">>)}
CredentialsArgs == {None, Str("creds")}
CloudFmtArgs == {None, Str("%(message)s")}
CloudDatefmtArgs == {None, Str("%H:%M")}

CloudInit ==
    /\ metadata \in {md \in [MetadataKeys -> UNION {Responses(k) : k \in MetadataKeys}] :
                        \A k \in MetadataKeys : md[k] \in Responses(k)}
    /\ environ = [k \in {} |-> None]
    /\ platform = "linux"
    /\ pathExists = FALSE
    /\ rootHandlers = <<>>
    /\ rootLevel = 30
    /\ workerLevel = 0
    /\ nextId = 1
    /\ pc = "idle"
    /\ args = None
    /\ i = 0
    /\ handler_module = None
    /\ handler = None
    /\ raised = None
    /\ calls = <<>>
    /\ entry = None
    /\ builder = None
    /\ given = None
    /\ product = None
    /\ requests = <<>>
    /\ completed = [attached |-> 0, level |-> "WARNING"]

CloudConstruct ==
    \E progname \in Prognames, fmt \in CloudFmtArgs, datefmt \in CloudDatefmtArgs,
       project_id \in ProjectIdArgs, credentials \in CredentialsArgs,
       debug_thread_worker \in {False, True} :
        NewCloudLoggingHandlerBuilder(progname, fmt, datefmt, project_id,
                                      credentials, debug_thread_worker)

CloudNext ==
    \/ CloudConstruct
    \/ CallCloudGetFormatter
    \/ CallCloudGetHandler

CloudSpec == CloudInit /\ [][CloudNext]_vars

----------------------------------------------------------------------------
(* Properties of setup_logging, checked under Spec *)

Running == pc # "idle"

\* The calls recorded for loop index k whose callee is one of ops
CallsAt(k, ops) == {n \in 1..Len(calls) : calls[n].i = k /\ calls[n].op \in ops}

Builders == {"_setup_default_handler", "get_handler"}

\* The class of handler each built-in name builds
HandlerClass(h) ==
    CASE h = "stream" -> "StreamHandler"
      [] h = "syslog" -> "SysLogHandler"
      [] h = "stackdriver" -> "CloudLoggingHandler"
      [] OTHER -> "none"

\* The handlers this call has attached: what follows those present on entry
Attached == SubSeq(rootHandlers, Len(entry.handlers) + 1, Len(rootHandlers))

\* The k-th handler this call attached is the object the build call for the
\* k-th name returned, and of that name's class
BuiltFor(k) ==
    /\ Attached[k].h.t = HandlerClass(args.handlers[k])
    /\ \E n \in CallsAt(k, Builders) : calls[n].ret = Num(Attached[k].id)

\* C1: after a call of setup_logging that completes on a root logger with no
\* handlers, the root logger holds exactly len(handlers) handlers, the k-th
\* being the object built for the k-th name, and every occurrence of a name
\* has its own handler object.
C1_OneHandlerPerNameInOrder ==
    (pc = "done" /\ entry.handlers = <<>>) =>
        /\ Len(rootHandlers) = Len(args.handlers)
        /\ \A k \in 1..Len(args.handlers) :
              k <= Len(rootHandlers) /\ Attached[k] = rootHandlers[k] /\ BuiltFor(k)
        /\ \A j, k \in 1..Len(rootHandlers) :
              j # k => rootHandlers[j].id # rootHandlers[k].id

C1_Witness ==
    /\ pc = "done"
    /\ entry.handlers = <<>>
    /\ args.handlers = <<"syslog", "stream", "syslog">>
    /\ Len(rootHandlers) = 3
    /\ rootHandlers[1].h.t = "SysLogHandler"
    /\ rootHandlers[2].h.t = "StreamHandler"
    /\ rootHandlers[3].h.t = "SysLogHandler"
    /\ rootHandlers[1].id # rootHandlers[3].id

\* C2: when resolving or building the handler for the N-th name fails, that
\* error is the one that leaves setup_logging, nothing is called after the
\* failing call, and the root logger holds the handlers it had on entry
\* followed by those built for names 1..N-1.
C2_FailureKeepsEarlierHandlers ==
    Running =>
        \A n \in 1..Len(calls) :
            (IsErr(calls[n].ret) /\ calls[n].op # "setLevel") =>
                /\ n = Len(calls)
                /\ pc = "raised"
                /\ raised = calls[n].ret
                /\ i = calls[n].i
                /\ Len(rootHandlers) = Len(entry.handlers) + (i - 1)
                /\ SubSeq(rootHandlers, 1, Len(entry.handlers)) = entry.handlers
                /\ \A k \in 1..(i - 1) : BuiltFor(k)
                /\ \A m \in 1..Len(calls) : calls[m].i <= i

C2_Witness ==
    /\ pc = "raised"
    /\ i = 3
    /\ args.handlers = <<"stream", "syslog", "stackdriver">>
    /\ raised.type = "GoogleCloudError"
    /\ entry.handlers = <<>>
    /\ Len(rootHandlers) = 2
    /\ rootHandlers[2].h.t = "SysLogHandler"

SetLevelCalls == {n \in 1..Len(calls) : calls[n].op = "setLevel"}
AddHandlerCalls == {n \in 1..Len(calls) : calls[n].op = "addHandler"}

\* C3: while the handler list is being processed the root logger's level is
\* the one it had on entry and setLevel has not been called; when the call
\* has completed, setLevel has been called exactly once, as the last call
\* and after len(handlers) attachments, and the level is that of the given
\* name, also for an empty list.
C3_LevelSetOnceAfterAttachments ==
    /\ pc \in {"for", "getattr", "call", "add"} =>
          rootLevel = entry.level /\ SetLevelCalls = {}
    /\ pc = "done" =>
          /\ SetLevelCalls = {Len(calls)}
          /\ Cardinality(AddHandlerCalls) = Len(args.handlers)
          /\ calls[Len(calls)].a = args.level
          /\ args.level \in DOMAIN LevelNumbers
          /\ rootLevel = LevelNumbers[args.level]

C3_Witness ==
    /\ pc = "done"
    /\ args.handlers = <<"stream", "stream">>
    /\ args.level = "DEBUG"
    /\ entry.level = 30
    /\ rootLevel = 10
    /\ calls[Len(calls)].op = "setLevel"
    /\ calls[Len(calls) - 1].op = "addHandler"

\* The name the loop is at has been through its import (or its build)
Processed ==
    /\ pc \in {"getattr", "call", "add", "raised"}
    /\ i \in 1..Len(args.handlers)

\* C4: once the loop has processed a name other than 'stream' for which the
\* package has no module, setup_logging has raised ULoggerError with the
\* message 'Unsupported log handler: "<name>".'.
C4_UnknownModuleRaises ==
    (Processed /\ args.handlers[i] # "stream"
       /\ ("ulogger." \o args.handlers[i]) \notin Modules) =>
        /\ pc = "raised"
        /\ raised = Err("ULoggerError",
                        "Unsupported log handler: \"" \o args.handlers[i] \o "\".")

C4_Witness ==
    /\ pc = "raised"
    /\ args.handlers = <<"stream", "notahandler">>
    /\ i = 2
    /\ raised.type = "ULoggerError"
    /\ raised.msg = "Unsupported log handler: \"notahandler\"."

\* C5: once the loop has gone past the getattr for a name whose module exists
\* and has no get_handler, setup_logging has raised ULoggerError with the
\* message '"get_handler" function not implemented for "<name>".', and no
\* handler was built or attached for that name.
C5_MissingGetHandlerRaises ==
    (Processed /\ pc # "getattr"
       /\ ("ulogger." \o args.handlers[i]) \in Modules \ WithGetHandler) =>
        /\ pc = "raised"
        /\ raised = Err("ULoggerError",
                        "\"get_handler\" function not implemented for \""
                            \o args.handlers[i] \o "\".")
        /\ CallsAt(i, Builders \cup {"addHandler"}) = {}
        /\ Len(rootHandlers) = Len(entry.handlers) + (i - 1)

C5_Witness ==
    /\ pc = "raised"
    /\ args.handlers = <<"syslog", "exceptions">>
    /\ i = 2
    /\ raised.type = "ULoggerError"
    /\ raised.msg = "\"get_handler\" function not implemented for \"exceptions\"."
    /\ Len(rootHandlers) = Len(entry.handlers) + 1

\* C6: for every name the loop has finished with: if it is 'stream', no module
\* was imported for it and the default handler was built once from the
\* program name and the keyword arguments of the call; otherwise its module
\* ulogger.<name> was imported exactly once and get_handler was called once
\* with the program name and exactly the keyword arguments of the call; the
\* handler attached is what that builder makes of these arguments.
C6_BuilderPerNameGetsAllKwargs ==
    Running =>
        \A k \in 1..Len(args.handlers) :
            k < i =>
                IF args.handlers[k] = "stream"
                THEN /\ CallsAt(k, {"import_module", "getattr", "get_handler"}) = {}
                     /\ Cardinality(CallsAt(k, {"_setup_default_handler"})) = 1
                     /\ \A n \in CallsAt(k, {"_setup_default_handler"}) :
                           calls[n].a = args.progname /\ calls[n].kw = args.kwargs
                     /\ Attached[k].h = _setup_default_handler(args.progname,
                                            Get(args.kwargs, "fmt", None),
                                            Get(args.kwargs, "datefmt", None))
                ELSE /\ CallsAt(k, {"_setup_default_handler"}) = {}
                     /\ Cardinality(CallsAt(k, {"import_module"})) = 1
                     /\ \A n \in CallsAt(k, {"import_module"}) :
                           calls[n].a = "ulogger." \o args.handlers[k]
                     /\ Cardinality(CallsAt(k, {"get_handler"})) = 1
                     /\ \A n \in CallsAt(k, {"get_handler"}) :
                           calls[n].a = args.progname /\ calls[n].kw = args.kwargs
                     /\ Attached[k].h =
                           call_get_handler(Str("ulogger." \o args.handlers[k]),
                               args.progname, args.kwargs, environ, platform,
                               pathExists, metadata, workerLevel)[1]

C6_Witness ==
    /\ pc = "done"
    /\ args.handlers = <<"stackdriver", "stream", "stackdriver">>
    /\ args.kwargs # NoKwargs
    /\ \A k \in 1..3 : Attached[k].h.formatter.fmt = Str("%(message)s")
    /\ Cardinality(CallsAt(1, {"import_module"})) = 1
    /\ CallsAt(2, {"import_module"}) = {}

----------------------------------------------------------------------------
(* Properties of the syslog builder, checked under SyslogSpec *)

Built == builder # None

HostSet == "SYSLOG_HOST" \in DOMAIN environ
HostNonEmpty == HostSet /\ environ["SYSLOG_HOST"].v # ""

\* The address the operating system defaults to
OsAddress ==
    IF platform = "darwin" /\ pathExists THEN Str("/var/run/syslog")
    ELSE Str("/dev/log")

\* The address the environment variables give
EnvAddress ==
    Tup(<<environ["SYSLOG_HOST"],
          IF "SYSLOG_PORT" \in DOMAIN environ THEN PyInt(environ["SYSLOG_PORT"])
          ELSE Num(514)>>)

\* The explicit address a with the port of a pair defaulted or made an int
ExplicitAddress(a) ==
    IF a.t = "tuple" /\ Len(a.v) = 2
    THEN Tup(<<a.v[1], IF a.v[2] = None THEN Num(514) ELSE PyInt(a.v[2])>>)
    ELSE a

\* C7 as stated: the address of a builder is the explicit one whenever an
\* address is given, else the environment's whenever SYSLOG_HOST is set, else
\* the operating system's default.
C7_Original ==
    Built =>
        builder.address =
            IF given.address # None THEN ExplicitAddress(given.address)
            ELSE IF HostSet THEN EnvAddress
            ELSE OsAddress

\* C7: the address of a builder is the explicit one whenever a non-empty
\* address is given, else the environment's whenever SYSLOG_HOST is set to a
\* non-empty value, else the operating system's default; an explicit protocol
\* other than 0 is the builder's protocol whatever the environment is.
C7_ExplicitThenEnvThenOs ==
    Built =>
        /\ builder.address =
              IF Truthy(given.address) THEN ExplicitAddress(given.address)
              ELSE IF HostNonEmpty THEN EnvAddress
              ELSE OsAddress
        /\ Truthy(given.proto) => builder.proto = given.proto

C7_Witness ==
    /\ Built
    /\ given.address = Tup(<<Str("h"), Num(1514)>>)
    /\ given.proto = Num(1)
    /\ HostNonEmpty
    /\ "SYSLOG_PORT" \in DOMAIN environ
    /\ environ["SYSLOG_PORT"] = Text(<<"5", "1", "5">>)
    /\ platform = "darwin"
    /\ pathExists
    /\ builder.address = Tup(<<Str("h"), Num(1514)>>)
    /\ builder.proto = Num(1)

\* C8 as stated: a non-empty address that is not a str resolves to
\* (host, 514) when it has no port or the port is None, and to
\* (host, int(port)) otherwise.
C8_Original ==
    (Built /\ given.address.t = "tuple" /\ Len(given.address.v) \in {1, 2}) =>
        builder.address =
            Tup(<<given.address.v[1],
                  IF Len(given.address.v) = 1 \/ given.address.v[2] = None
                  THEN Num(514) ELSE PyInt(given.address.v[2])>>)

\* C8: a two-element address (host, port) resolves to (host, 514) when the
\* port is None and to (host, int(port)) otherwise, the host unchanged; a
\* non-empty address of any other length, such as (host,) with no port, is
\* kept as it is.
C8_PairPortDefaultedOrCoerced ==
    (Built /\ given.address.t = "tuple" /\ Len(given.address.v) > 0) =>
        IF Len(given.address.v) = 2
        THEN /\ builder.address.t = "tuple"
             /\ Len(builder.address.v) = 2
             /\ builder.address.v[1] = given.address.v[1]
             /\ builder.address.v[2].t = "int"
             /\ builder.address.v[2] =
                   IF given.address.v[2] = None THEN Num(514)
                   ELSE PyInt(given.address.v[2])
        ELSE builder.address = given.address

C8_Witness ==
    /\ Built
    /\ given.address = Tup(<<Str("h"), Text(<<"0", "6", "0", "1">>)>>)
    /\ builder.address = Tup(<<Str("h"), Num(601)>>)

\* C9 as stated: an explicit address that is a str is the builder's address
\* verbatim.
C9_Original ==
    (given # None /\ given.address.t = "str") =>
        Built /\ builder.address = given.address

\* C9: an explicit address that is a non-empty str is the builder's address
\* verbatim, whatever the environment variables and the platform are.
C9_NonEmptyPathVerbatim ==
    (given # None /\ given.address.t = "str" /\ given.address.v # "") =>
        Built /\ builder.address = given.address

C9_Witness ==
    /\ Built
    /\ given.address = Str("/tmp/log")
    /\ HostNonEmpty
    /\ platform = "darwin"
    /\ pathExists
    /\ builder.address = Str("/tmp/log")

\* C10 as stated: whenever SYSLOG_HOST is set the classification is 'remote';
\* when it is not set it is 'darwin' or 'default'.
C10_Original ==
    Built =>
        IF HostSet THEN builder._environ = "remote"
        ELSE builder._environ \in {"darwin", "default"}

\* C10: whenever SYSLOG_HOST is set to a non-empty value the classification
\* is 'remote', whatever the platform is and whether or not /var/run/syslog
\* exists; otherwise it is 'darwin' on a darwin platform where
\* /var/run/syslog exists and 'default' everywhere else.
C10_NonEmptyHostMeansRemote ==
    Built =>
        IF HostNonEmpty THEN builder._environ = "remote"
        ELSE builder._environ =
                IF platform = "darwin" /\ pathExists THEN "darwin" ELSE "default"

C10_Witness ==
    /\ Built
    /\ HostNonEmpty
    /\ platform = "darwin"
    /\ pathExists
    /\ builder._environ = "remote"

\* C11: when no explicit address is given, the builder's address is
\* '/dev/log' in classification 'default', '/var/run/syslog' in 'darwin', and
\* in 'remote' the pair of SYSLOG_HOST and the port, which is int(SYSLOG_PORT)
\* when SYSLOG_PORT is set and 514 when it is not.
C11_DefaultAddressByClassification ==
    (Built /\ given.address = None) =>
        CASE builder._environ = "default" -> builder.address = Str("/dev/log")
          [] builder._environ = "darwin" -> builder.address = Str("/var/run/syslog")
          [] builder._environ = "remote" ->
                /\ builder.address.t = "tuple"
                /\ Len(builder.address.v) = 2
                /\ builder.address.v[1] = environ["SYSLOG_HOST"]
                /\ builder.address.v[2].t = "int"
                /\ builder.address.v[2].v =
                      IF "SYSLOG_PORT" \in DOMAIN environ
                      THEN DigitsValue(environ["SYSLOG_PORT"].cs)
                      ELSE 514

C11_Witness ==
    /\ Built
    /\ given.address = None
    /\ builder._environ = "remote"
    /\ environ["SYSLOG_HOST"] = Str("loghost")
    /\ "SYSLOG_PORT" \in DOMAIN environ
    /\ builder.address = Tup(<<Str("loghost"), Num(515)>>)

\* The handler get_handler returned, when the last call on the builder was one
HandlerMade == product.t = "SysLogHandler"

\* C12 as stated: the builder's protocol is the explicit proto for every proto
\* given, and 2 only when none is given.
C12_Original ==
    Built => builder.proto = IF given.proto # None THEN given.proto ELSE Num(2)

\* C12: the builder's protocol is the explicit proto for every proto given
\* other than 0, and 2 when none or 0 is given, whatever the address and the
\* environment are; the handler returned has that protocol as its socket type.
C12_ProtoExplicitUnlessZero ==
    Built =>
        /\ builder.proto =
              IF given.proto \notin {None, Num(0)} THEN given.proto ELSE Num(2)
        /\ HandlerMade => product.socktype = builder.proto

C12_Witness ==
    /\ Built
    /\ given.proto = Num(1)
    /\ HostNonEmpty
    /\ given.address = Tup(<<Str("h"), None>>)
    /\ HandlerMade
    /\ product.socktype = Num(1)

\* C13: the builder's facility is the explicit facility for every facility
\* code given, code 0 included, and 16 only when none is given; the handler
\* returned carries the same facility.
C13_FacilityExplicitIfGiven ==
    Built =>
        /\ builder.facility =
              IF given.facility # None THEN given.facility ELSE Num(16)
        /\ HandlerMade => product.facility = builder.facility

\* The formatter the last call on the builder made: the one get_formatter
\* returned, or the one get_handler set on the handler
FormatterMade == product.t \in {"Formatter", "SysLogHandler"}
TheFormatter == IF product.t = "Formatter" THEN product ELSE product.formatter

\* C14: in classification 'darwin' the formatter's format is the explicit fmt
\* when a non-empty one is given and '<progname> (%(process)d): %(message)s'
\* otherwise, and the formatter has no date format, whether or not a datefmt
\* is given.
C14_DarwinFormatWithoutDate ==
    (FormatterMade /\ builder._environ = "darwin") =>
        /\ TheFormatter.fmt =
              IF Truthy(given.fmt) THEN given.fmt
              ELSE Str(given.progname \o " (%(process)d): %(message)s")
        /\ TheFormatter.datefmt = None

C14_Witness ==
    /\ product.t = "Formatter"
    /\ builder._environ = "darwin"
    /\ given.fmt = None
    /\ given.datefmt = Str("%H:%M")
    /\ product.fmt = Str("foo (%(process)d): %(message)s")
    /\ product.datefmt = None

\* C15: in the classifications 'default' and 'remote' the formatter's format
\* is the explicit fmt when a non-empty one is given and
\* '%(asctime)s.%(msecs)03dZ <progname> (%(process)d): %(message)s' otherwise,
\* and its date format is the explicit datefmt when a non-empty one is given
\* and '%Y-%m-%dT%H:%M:%S' otherwise, each defaulted whatever the other is.
C15_DefaultFormatAndDateIndependent ==
    (FormatterMade /\ builder._environ # "darwin") =>
        /\ builder._environ \in {"default", "remote"}
        /\ TheFormatter.fmt =
              IF Truthy(given.fmt) THEN given.fmt
              ELSE Str("%(asctime)s.%(msecs)03dZ " \o given.progname
                       \o " (%(process)d): %(message)s")
        /\ TheFormatter.datefmt =
              IF Truthy(given.datefmt) THEN given.datefmt
              ELSE Str("%Y-%m-%dT%H:%M:%S")

C15_Witness ==
    /\ product.t = "SysLogHandler"
    /\ builder._environ = "remote"
    /\ given.fmt = Str("%(message)s")
    /\ given.datefmt = None
    /\ product.formatter.fmt = Str("%(message)s")
    /\ product.formatter.datefmt = Str("%Y-%m-%dT%H:%M:%S")

\* A port value that is a str and not a decimal numeral
Malformed(x) ==
    /\ x.t = "str"
    /\ "cs" \in DOMAIN x
    /\ \/ x.cs = <<>>
       \/ \E k \in 1..Len(x.cs) :
             x.cs[k] \notin {"0", "1", "2", "3", "4", "5", "6", "7", "8", "9"}

\* The explicit address is a (host, port) pair whose port is malformed
ExplicitPortMalformed ==
    /\ given.address.t = "tuple"
    /\ Len(given.address.v) = 2
    /\ Malformed(given.address.v[2])

\* SYSLOG_PORT is set to a malformed value
EnvPortMalformed ==
    /\ "SYSLOG_PORT" \in DOMAIN environ
    /\ Malformed(environ["SYSLOG_PORT"])

\* Construction of the builder was attempted and raised a ValueError
ConstructionFailed ==
    /\ given # None
    /\ builder = None
    /\ IsErr(product)
    /\ product.type = "ValueError"

\* The keyword arguments that make get_handler construct the builder as given
GivenKwargs ==
    [k \in {"address", "proto", "facility", "fmt", "datefmt"} |-> given[k]]

\* C18 as stated: every malformed port value, in an explicit (host, port)
\* address or in SYSLOG_PORT, makes construction of the builder fail.
C18_Original ==
    (given # None /\ (ExplicitPortMalformed \/ EnvPortMalformed)) =>
        ConstructionFailed

\* C18: a malformed port in an explicit (host, port) address always makes
\* construction of the builder fail with a ValueError, and a malformed
\* SYSLOG_PORT does so when the port is read, that is when SYSLOG_HOST is
\* non-empty and no non-empty explicit address is given; the module's
\* get_handler then raises that error and returns no handler. A malformed
\* SYSLOG_PORT that is not read leaves construction succeeding.
C18_MalformedPortReadFailsFast ==
    given # None =>
        /\ (\/ ExplicitPortMalformed
            \/ (EnvPortMalformed /\ HostNonEmpty /\ ~Truthy(given.address)))
              => /\ ConstructionFailed
                 /\ syslog_get_handler(given.progname, GivenKwargs, environ,
                                       platform, pathExists) = product
        /\ (/\ EnvPortMalformed
            /\ ~ExplicitPortMalformed
            /\ (~HostNonEmpty \/ Truthy(given.address)))
              => Built

C18_Witness ==
    /\ ConstructionFailed
    /\ given.address = None
    /\ HostNonEmpty
    /\ environ["SYSLOG_PORT"] = Text(<<"5", "x">>)

\* C20: whenever setup_logging has raised while processing its handler list,
\* the root logger's level is the one it had on entry and setLevel has not
\* been called; the level differs from the one on entry only once the call
\* has completed with every handler of the list attached.
C20_RaiseInLoopKeepsLevel ==
    /\ (pc = "raised" /\ i <= Len(args.handlers)) =>
          /\ rootLevel = entry.level
          /\ SetLevelCalls = {}
    /\ (Running /\ rootLevel # entry.level) =>
          /\ pc = "done"
          /\ Len(Attached) = Len(args.handlers)

C20_Witness ==
    /\ pc = "raised"
    /\ i = 2
    /\ Len(args.handlers) >= 2
    /\ Len(Attached) = 1
    /\ args.level = "INFO"
    /\ entry.level = 30
    /\ rootLevel = 30

\* The GET for key k fails its fetch: a transport error, an error status, or a
\* body of nothing but whitespace
FetchFails(k) ==
    \/ metadata[k].status = "neterr"
    \/ metadata[k].status = "httperr"
    \/ \A n \in 1..Len(metadata[k].text) : metadata[k].text[n] \in {" ", "\n", "\t"}

\* Construction of the cloud builder was attempted and raised GoogleCloudError
CloudConstructionFailed ==
    /\ given # None
    /\ builder = None
    /\ IsErr(product)
    /\ product.type = "GoogleCloudError"

\* C16: a metadata fetch raises GoogleCloudError exactly when the GET raises a
\* transport error, the status is an error, or the body is empty after
\* stripping whitespace, and returns the body unchanged otherwise;
\* construction of the cloud builder fails with that error exactly when one of
\* the fetches it makes fails, the failing fetch being its last, and a builder
\* constructed holds the bodies fetched.
C16_FetchFailureIsGoogleCloudError ==
    /\ \A k \in MetadataKeys :
          LET value == _get_metadata(k, metadata[k])
          IN  IF FetchFails(k)
              THEN IsErr(value) /\ value.type = "GoogleCloudError"
              ELSE value = Text(metadata[k].text)
    /\ given # None =>
          /\ CloudConstructionFailed <=>
                \E n \in 1..Len(requests) : FetchFails(requests[n])
          /\ CloudConstructionFailed =>
                /\ product = _get_metadata(requests[Len(requests)],
                                           metadata[requests[Len(requests)]])
                /\ \A n \in 1..(Len(requests) - 1) : ~FetchFails(requests[n])
          /\ ~CloudConstructionFailed =>
                /\ Built
                /\ builder.hostname = Text(metadata["name"].text)
                /\ builder.instance_id = Text(metadata["id"].text)

C16_Witness ==
    /\ CloudConstructionFailed
    /\ requests = <<"project-id", "name", "id">>
    /\ metadata["id"] = Rsp("ok", <<"\n">>)
    /\ metadata["zone"] = Rsp("ok", <<"b">>)

\* The GETs a construction with the given arguments makes when none fails
ExpectedRequests ==
    (IF Truthy(given.project_id) THEN <<>> ELSE <<"project-id">>)
        \o <<"name", "id", "zone">>

\* C17 as stated: a constructed cloud builder has sent exactly one GET for
\* each of the four keys, and none since.
C17_Original ==
    Built => requests = <<"project-id", "name", "id", "zone">>

\* C17: constructing a cloud builder sends one GET for each of the keys name,
\* id and zone, preceded by one for project-id when no non-empty project id
\* is given, in that order and stopping at the first that fails; no key is
\* fetched twice, and after any calls of get_formatter and get_handler the
\* GETs sent are still those of the construction.
C17_OneGetPerKeyAtConstruction ==
    given # None =>
        /\ Len(requests) <= Len(ExpectedRequests)
        /\ requests = SubSeq(ExpectedRequests, 1, Len(requests))
        /\ \A m, n \in 1..Len(requests) : requests[m] = requests[n] => m = n
        /\ Built => requests = ExpectedRequests
        /\ ~Built => FetchFails(requests[Len(requests)])

C17_Witness ==
    /\ Built
    /\ given.project_id = Text(<<"q">>)
    /\ product.t = "CloudLoggingHandler"
    /\ requests = <<"name", "id", "zone">>

\* z is what follows the last '/' of cs: a suffix without '/', which is all of
\* cs or is preceded by '/'
AfterLastSlash(z, cs) ==
    /\ Len(z) <= Len(cs)
    /\ z = SubSeq(cs, Len(cs) - Len(z) + 1, Len(cs))
    /\ \A n \in 1..Len(z) : z[n] # "/"
    /\ Len(z) = Len(cs) \/ cs[Len(cs) - Len(z)] = "/"

\* C19: the cloud builder's resource is of type 'gce_instance'; its project_id
\* is the explicit project id when a non-empty one is given and the fetched
\* project-id otherwise, its instance_id is the fetched instance id, and its
\* zone is what follows the last '/' of the fetched zone, all of it when it
\* has no '/'; the handler's client is of that project and the handler
\* carries that resource.
C19_ResourceDescriptor ==
    Built =>
        /\ builder.resource.type = "gce_instance"
        /\ builder.resource.labels.project_id =
              IF Truthy(given.project_id) THEN given.project_id
              ELSE Text(metadata["project-id"].text)
        /\ builder.resource.labels.instance_id = Text(metadata["id"].text)
        /\ AfterLastSlash(builder.resource.labels.zone.cs, metadata["zone"].text)
        /\ product.t = "CloudLoggingHandler" =>
              /\ product.client.project = builder.resource.labels.project_id
              /\ product.resource = builder.resource

C19_Witness ==
    /\ Built
    /\ given.project_id = None
    /\ metadata["zone"] = Rsp("ok", <<"a", "/", "z", "/", "b">>)
    /\ product.t = "CloudLoggingHandler"
    /\ product.client.project = Text(<<"p">>)
    /\ product.resource.labels.zone = Text(<<"b">>)
    /\ product.resource.labels.instance_id = Text(<<"7", "\n">>)

\* C21: setup_logging never removes or replaces a handler of the root logger:
\* during a call the handlers present on entry stay where they were, and the
\* handlers are in the order they were built.  Between calls the root logger
\* holds as many handlers as the lists of the calls that returned had names
\* (plus what the calls that raised had attached), so a call repeated adds its
\* handlers again, and its level is that of the last call that returned.
C21_CallsAccumulateHandlers ==
    /\ \A m, n \in 1..Len(rootHandlers) :
          m < n => rootHandlers[m].id < rootHandlers[n].id
    /\ Running =>
          /\ Len(entry.handlers) = completed.attached
          /\ Len(rootHandlers) >= Len(entry.handlers)
          /\ SubSeq(rootHandlers, 1, Len(entry.handlers)) = entry.handlers
          /\ entry.level = LevelNumbers[completed.level]
    /\ pc = "done" =>
          /\ Len(rootHandlers) = completed.attached + Len(args.handlers)
          /\ rootLevel = LevelNumbers[args.level]
    /\ pc = "idle" =>
          /\ Len(rootHandlers) = completed.attached
          /\ rootLevel = LevelNumbers[completed.level]

\* The call of setup_logging('foo', 'INFO', ['stream']) has returned a second
\* time: two stream handlers alike, and the level of that call
C21_Witness ==
    /\ pc = "done"
    /\ args.handlers = <<"stream">>
    /\ args.level = "INFO"
    /\ completed = [attached |-> 1, level |-> "INFO"]
    /\ Len(rootHandlers) = 2
    /\ rootHandlers[1].h = rootHandlers[2].h
    /\ rootHandlers[1].id # rootHandlers[2].id
    /\ rootHandlers[1].h.t = "StreamHandler"
    /\ rootLevel = 20

====
